---- MODULE Spec2Model ----
(***************************************************************************)
(* Model of src/utils/ats.py: the operations of ResumeParser and            *)
(* ATSMatcher, the four wrappers of GeminiAIAnalyzer around the external    *)
(* service, and the pipeline ATSAnalyzer.process_resume_and_job.            *)
(*                                                                         *)
(* A Python str is modelled as a sequence of one-character strings, a      *)
(* Python list as a sequence, an argument that may be None as a record     *)
(* [none, val], and a float as an exact fraction [num, den] in lowest      *)
(* terms.  A call is one step: the caller is idle, calls one operation     *)
(* with some arguments, and reads what came back.  The pipeline takes one  *)
(* step for each of its stages; locals holds its local variables between   *)
(* the stages and service the replies the external service has given.      *)
(* passed holds the argument lists of a call as they are when the call     *)
(* returns, and vectorizer the fitted state of the TfidfVectorizer that    *)
(* the ATSMatcher keeps from call to call.                                 *)
(***************************************************************************)
EXTENDS Integers, Sequences, FiniteSets, TLC

VARIABLES pc, args, ret, log, locals, service, passed, vectorizer

vars == <<pc, args, ret, log, locals, service, passed, vectorizer>>

(***************************************************************************)
(* Bounds of the explored inputs.                                          *)
(***************************************************************************)
MaxTextLen == 5
MaxResume == 2
MaxRequired == 2
MaxPreferred == 1
MaxPieces == 4
MaxTopN == 2
MaxContactPieces == 3
MaxSimilarityPieces == 2
MaxPages == 2

(***************************************************************************)
(* Characters.                                                             *)
(***************************************************************************)
Lowercase ==
  {"a","b","c","d","e","f","g","h","i","j","k","l","m",
   "n","o","p","q","r","s","t","u","v","w","x","y","z"}

Uppercase ==
  {"A","B","C","D","E","F","G","H","I","J","K","L","M",
   "N","O","P","Q","R","S","T","U","V","W","X","Y","Z"}

Digits == {"0","1","2","3","4","5","6","7","8","9"}

\* \s of the regular expressions and the characters str.strip() removes
Whitespace == {" ", "\n", "\t", "\r"}

\* \w of the regular expressions
WordChars == Lowercase \cup Uppercase \cup Digits \cup {"_"}

\* the punctuation the character class of clean_text keeps: @.+\-()&,
KeptPunctuation == {"@", ".", "+", "-", "(", ")", "&", ","}

\* str.lower() on one character
LowerChar(c) ==
  CASE c = "A" -> "a" [] c = "B" -> "b" [] c = "C" -> "c" [] c = "D" -> "d"
    [] c = "E" -> "e" [] c = "F" -> "f" [] c = "G" -> "g" [] c = "H" -> "h"
    [] c = "I" -> "i" [] c = "J" -> "j" [] c = "K" -> "k" [] c = "L" -> "l"
    [] c = "M" -> "m" [] c = "N" -> "n" [] c = "O" -> "o" [] c = "P" -> "p"
    [] c = "Q" -> "q" [] c = "R" -> "r" [] c = "S" -> "s" [] c = "T" -> "t"
    [] c = "U" -> "u" [] c = "V" -> "v" [] c = "W" -> "w" [] c = "X" -> "x"
    [] c = "Y" -> "y" [] c = "Z" -> "z" [] OTHER -> c

\* str.lower()
lower(s) == [i \in 1..Len(s) |-> LowerChar(s[i])]

RECURSIVE lstrip(_)
lstrip(s) ==
  IF s = <<>> THEN <<>>
  ELSE IF Head(s) \in Whitespace THEN lstrip(Tail(s))
  ELSE s

RECURSIVE rstrip(_)
rstrip(s) ==
  IF s = <<>> THEN <<>>
  ELSE IF s[Len(s)] \in Whitespace THEN rstrip(SubSeq(s, 1, Len(s) - 1))
  ELSE s

\* str.strip()
strip(s) == rstrip(lstrip(s))

\* a in b, for two strings
IsSubstring(a, b) ==
  \E i \in 0..(Len(b) - Len(a)) : SubSeq(b, i + 1, i + Len(a)) = a

(***************************************************************************)
(* ResumeParser.extract_text_from_pdf                                      *)
(*                                                                         *)
(* A PDF file is modelled by what the two libraries make of it: for every  *)
(* page the text pdfplumber extracts (a string or None) and the text       *)
(* PyPDF2 extracts, whether each library raises on the file, and whether   *)
(* the file object has a seek method.  The string returned is modelled as  *)
(* a record with the one field text.                                       *)
(***************************************************************************)
\* the pdfplumber loop: page_text + "\n" for every page with a non-empty text
RECURSIVE PrimaryText(_)
PrimaryText(pages) ==
  IF pages = <<>> THEN <<>>
  ELSE (IF ~Head(pages).plumber.none /\ Head(pages).plumber.val # <<>>
        THEN Head(pages).plumber.val \o <<"\n">>
        ELSE <<>>)
         \o PrimaryText(Tail(pages))

\* the PyPDF2 loop: page.extract_text() + "\n" for every page
RECURSIVE FallbackText(_)
FallbackText(pages) ==
  IF pages = <<>> THEN <<>>
  ELSE Head(pages).pypdf \o <<"\n">> \o FallbackText(Tail(pages))

\* HasText taking whitespace for text
HasTextUnstripped(text) == text # <<>>

\* if text.strip()
HasText(text) == strip(text) # <<>>

\* Fallback reading the file from wherever the first attempt left it
FallbackUnrewound(pdf_file) ==
  [value |-> [text |-> IF pdf_file.pypdf_raises THEN <<>>
                       ELSE FallbackText(pdf_file.pages)],
   log |-> <<"fallback">>]

\* the second try block: rewind the file if it can be rewound, then read it
\* with PyPDF2; "" if that raises
Fallback(pdf_file) ==
  [value |-> [text |-> IF pdf_file.pypdf_raises THEN <<>>
                       ELSE FallbackText(pdf_file.pages)],
   log |-> (IF pdf_file.seekable THEN <<"seek">> ELSE <<>>) \o <<"fallback">>]

\* The call: the text returned and the attempts made, in order.
extract_text_from_pdf(pdf_file) ==
  IF ~pdf_file.plumber_raises /\ HasText(PrimaryText(pdf_file.pages))
  THEN [value |-> [text |-> PrimaryText(pdf_file.pages)], log |-> <<"primary">>]
  ELSE [value |-> Fallback(pdf_file).value,
        log |-> <<"primary">> \o Fallback(pdf_file).log]

(***************************************************************************)
(* ResumeParser.clean_text                                                 *)
(***************************************************************************)
\* re.sub(r'\s+', ' ', s): every maximal run of whitespace becomes one space
RECURSIVE CollapseWhitespace(_)
CollapseWhitespace(s) ==
  IF s = <<>> THEN <<>>
  ELSE IF Head(s) \in Whitespace
       THEN <<" ">> \o CollapseWhitespace(lstrip(Tail(s)))
       ELSE <<Head(s)>> \o CollapseWhitespace(Tail(s))

\* re.sub(r'[^\w\s@.+\-()&,]', '', s): every character outside the class goes
RemoveSpecial(s) ==
  SelectSeq(s, LAMBDA c : c \in WordChars \cup Whitespace \cup KeptPunctuation)

clean_text(text) == RemoveSpecial(CollapseWhitespace(strip(text)))

(***************************************************************************)
(* ResumeParser.extract_contact_info                                       *)
(*                                                                         *)
(* A pattern without groups is a list of items: a character class with a   *)
(* greedy quantifier {min,max}, or the word boundary \b.  Positions count  *)
(* from 1; a match from pos ends before the position returned, 0 is "no    *)
(* match".                                                                 *)
(***************************************************************************)
Class(cls, min, max) == [kind |-> "cls", cls |-> cls, min |-> min, max |-> max]

WordBoundary == [kind |-> "wb", cls |-> {}, min |-> 0, max |-> 0]

\* a quantifier without upper limit: + is {1,Unlimited}
Unlimited == 1000

\* the characters that match c under re.IGNORECASE
AnyCase(c) == {x \in Lowercase \cup Uppercase \cup {c} : LowerChar(x) = LowerChar(c)}

\* a literal string matched under re.IGNORECASE
Literal(str) == [i \in 1..Len(str) |-> Class(AnyCase(str[i]), 1, 1)]

\* \b at pos: exactly one of the characters before and at pos is a word character
AtWordBoundary(s, pos) ==
  (pos > 1 /\ s[pos - 1] \in WordChars) # (pos <= Len(s) /\ s[pos] \in WordChars)

\* how many characters from pos on are in cls, at most max
RECURSIVE Run(_, _, _, _)
Run(s, pos, cls, max) ==
  IF max = 0 \/ pos > Len(s) \/ s[pos] \notin cls THEN 0
  ELSE 1 + Run(s, pos + 1, cls, max - 1)

\* no match
NoMatch == [ok |-> FALSE, ends |-> <<>>]

\* The backtracking match of the items from pos: ends lists where each item
\* ends (the position after its last character).  A greedy item first takes
\* take characters, then one less as long as the rest of the pattern does
\* not match, down to its minimum.
RECURSIVE MatchTaking(_, _, _, _)
MatchTaking(items, s, pos, take) ==
  LET it == Head(items)
      rest == IF Len(items) = 1 THEN [ok |-> TRUE, ends |-> <<>>]
              ELSE IF items[2].kind = "wb"
              THEN IF AtWordBoundary(s, pos + take)
                   THEN MatchTaking(Tail(items), s, pos + take, 0)
                   ELSE NoMatch
              ELSE MatchTaking(Tail(items), s, pos + take,
                               Run(s, pos + take, items[2].cls, items[2].max))
  IN IF take < it.min THEN NoMatch
     ELSE IF rest.ok THEN [ok |-> TRUE, ends |-> <<pos + take>> \o rest.ends]
     ELSE IF it.kind = "wb" THEN NoMatch
     ELSE MatchTaking(items, s, pos, take - 1)

\* the match of a non-empty pattern from pos
MatchFrom(items, s, pos) ==
  IF Head(items).kind = "wb"
  THEN IF AtWordBoundary(s, pos) THEN MatchTaking(items, s, pos, 0) ELSE NoMatch
  ELSE MatchTaking(items, s, pos, Run(s, pos, Head(items).cls, Head(items).max))

\* the end of the match
MatchEnd(m) == m.ends[Len(m.ends)]

\* the leftmost match of the items in s
RECURSIVE FirstMatchFrom(_, _, _)
FirstMatchFrom(items, s, pos) ==
  IF pos > Len(s) THEN [found |-> FALSE, text |-> <<>>]
  ELSE LET m == MatchFrom(items, s, pos)
       IN IF m.ok THEN [found |-> TRUE, text |-> SubSeq(s, pos, MatchEnd(m) - 1)]
          ELSE FirstMatchFrom(items, s, pos + 1)

\* re.findall(pattern, s) for a pattern without groups, as far as its first
\* element: the text of the leftmost match, found = FALSE for the empty list
FindFirst(items, s) == FirstMatchFrom(items, s, 1)

\* [-.\s]
Separators == {"-", "."} \cup Whitespace

\* \b[A-Za-z0-9._%+-]+@[A-Za-z0-9.-]+\.[A-Z|a-z]{2,}\b
email_pattern ==
  <<WordBoundary,
    Class(Lowercase \cup Uppercase \cup Digits \cup {".", "_", "%", "+", "-"},
          1, Unlimited),
    Class({"@"}, 1, 1),
    Class(Lowercase \cup Uppercase \cup Digits \cup {".", "-"}, 1, Unlimited),
    Class({"."}, 1, 1),
    Class(Lowercase \cup Uppercase \cup {"|"}, 2, Unlimited),
    WordBoundary>>

\* the group of phone_pattern: (\+?\d{1,3}[-.\s]?)
phone_group ==
  <<Class({"+"}, 0, 1), Class(Digits, 1, 3), Class(Separators, 0, 1)>>

\* phone_pattern after its group: \(?\d{3}\)?[-.\s]?\d{3}[-.\s]?\d{4}
phone_rest ==
  <<Class({"("}, 0, 1), Class(Digits, 3, 3), Class({")"}, 0, 1),
    Class(Separators, 0, 1), Class(Digits, 3, 3), Class(Separators, 0, 1),
    Class(Digits, 4, 4)>>

\* The leftmost match of phone_pattern from pos on; the optional group is
\* tried first.  whole is the text of the match, group what the group
\* matched: the empty string when the group took no part in the match.
RECURSIVE PhoneFirstMatchFrom(_, _)
PhoneFirstMatchFrom(s, pos) ==
  IF pos > Len(s) THEN [found |-> FALSE, whole |-> <<>>, group |-> <<>>]
  ELSE LET with == MatchFrom(phone_group \o phone_rest, s, pos)
           without == MatchFrom(phone_rest, s, pos)
       IN IF with.ok
          THEN [found |-> TRUE,
                whole |-> SubSeq(s, pos, MatchEnd(with) - 1),
                group |-> SubSeq(s, pos, with.ends[Len(phone_group)] - 1)]
          ELSE IF without.ok
          THEN [found |-> TRUE,
                whole |-> SubSeq(s, pos, MatchEnd(without) - 1),
                group |-> <<>>]
          ELSE PhoneFirstMatchFrom(s, pos + 1)

\* re.findall(phone_pattern, s) as far as its first element.  The pattern
\* has one group, so findall lists what the group matched, not the whole
\* match.
PhoneFindFirst(s) ==
  LET m == PhoneFirstMatchFrom(s, 1)
  IN [found |-> m.found, text |-> m.group]

\* linkedin\.com/in/[\w\-]+ under re.IGNORECASE
linkedin_pattern ==
  Literal(<<"l", "i", "n", "k", "e", "d", "i", "n", ".", "c", "o", "m", "/", "i", "n", "/">>)
    \o <<Class(WordChars \cup {"-"}, 1, Unlimited)>>

\* github\.com/[\w\-]+ under re.IGNORECASE
github_pattern ==
  Literal(<<"g", "i", "t", "h", "u", "b", ".", "c", "o", "m", "/">>)
    \o <<Class(WordChars \cup {"-"}, 1, Unlimited)>>

\* "https://"
HttpsPrefix == <<"h", "t", "t", "p", "s", ":", "/", "/">>

extract_contact_info(text) ==
  LET emails == FindFirst(email_pattern, text)
      phones == PhoneFindFirst(text)
      linkedin_matches == FindFirst(linkedin_pattern, text)
      github_matches == FindFirst(github_pattern, text)
  IN [email |-> IF emails.found THEN emails.text ELSE <<>>,
      phone |-> IF phones.found THEN phones.text ELSE <<>>,
      linkedin |-> IF linkedin_matches.found
                   THEN HttpsPrefix \o linkedin_matches.text ELSE <<>>,
      github |-> IF github_matches.found
                 THEN HttpsPrefix \o github_matches.text ELSE <<>>]

(***************************************************************************)
(* ResumeParser.extract_keywords                                           *)
(***************************************************************************)
\* self.stop_words: the NLTK English stopwords the explored texts can spell
stop_words == {<<"t", "h", "e">>}

\* the characters word_tokenize always splits off as tokens of their own
SplitOff == {"@", "&", "(", ")"}

\* word_tokenize on a cleaned, lowercased text of letters, digits, spaces
\* and the kept punctuation, without sentence-final periods: tokens are
\* separated by whitespace, the characters of SplitOff and a comma that no
\* digit follows are tokens of their own.  cur is the token being read.
RECURSIVE Scan(_, _)
Scan(s, cur) ==
  LET flush == IF cur = <<>> THEN <<>> ELSE <<cur>>
  IN IF s = <<>> THEN flush
     ELSE IF Head(s) \in Whitespace THEN flush \o Scan(Tail(s), <<>>)
     ELSE IF \/ Head(s) \in SplitOff
             \/ Head(s) = "," /\ (Len(s) = 1 \/ s[2] \notin Digits)
          THEN flush \o <<<<Head(s)>>>> \o Scan(Tail(s), <<>>)
     ELSE Scan(Tail(s), Append(cur, Head(s)))

word_tokenize(text) == Scan(text, <<>>)

\* str.isalpha()
isalpha(word) ==
  word # <<>> /\ \A i \in 1..Len(word) : word[i] \in Lowercase \cup Uppercase

\* the list comprehension that drops stopwords, short and non-alphabetic words
FilterWords(words) ==
  SelectSeq(words, LAMBDA word :
              word \notin stop_words /\ Len(word) > 2 /\ isalpha(word))

\* CountOne adding an entry for every occurrence
CountOneAlwaysNew(word_freq, word) ==
  Append(word_freq, [word |-> word, freq |-> 1])

\* word_freq[word] = word_freq.get(word, 0) + 1 on a dict, which keeps its
\* keys in the order of their first insertion
CountOne(word_freq, word) ==
  IF \E i \in 1..Len(word_freq) : word_freq[i].word = word
  THEN [i \in 1..Len(word_freq) |->
          IF word_freq[i].word = word
          THEN [word |-> word, freq |-> word_freq[i].freq + 1]
          ELSE word_freq[i]]
  ELSE Append(word_freq, [word |-> word, freq |-> 1])

\* the counting loop
RECURSIVE CountWords(_, _)
CountWords(filtered_words, word_freq) ==
  IF filtered_words = <<>> THEN word_freq
  ELSE CountWords(Tail(filtered_words), CountOne(word_freq, Head(filtered_words)))

\* InsertSorted putting the item before the items of the same frequency
InsertSortedBeforeEqual(item, sorted) ==
  LET before == {i \in 1..Len(sorted) : sorted[i].freq > item.freq}
      k == Cardinality(before)
  IN SubSeq(sorted, 1, k) \o <<item>> \o SubSeq(sorted, k + 1, Len(sorted))

\* one item put into a list sorted by descending frequency, after the items
\* of the same frequency
InsertSorted(item, sorted) ==
  LET before == {i \in 1..Len(sorted) : sorted[i].freq >= item.freq}
      k == Cardinality(before)
  IN SubSeq(sorted, 1, k) \o <<item>> \o SubSeq(sorted, k + 1, Len(sorted))

\* sorted(word_freq.items(), key=lambda x: x[1], reverse=True): stable, so
\* items of equal frequency keep the order they have in the dict
RECURSIVE SortByFreq(_, _)
SortByFreq(items, sorted) ==
  IF items = <<>> THEN sorted
  ELSE SortByFreq(Tail(items), InsertSorted(Head(items), sorted))

\* TopSlice cutting one entry too late
TopSliceOffByOne(sorted_words, top_n) ==
  SubSeq(sorted_words, 1, IF top_n + 1 < Len(sorted_words) THEN top_n + 1
                          ELSE Len(sorted_words))

\* sorted_words[:top_n], for top_n >= 0
TopSlice(sorted_words, top_n) ==
  SubSeq(sorted_words, 1, IF top_n < Len(sorted_words) THEN top_n
                          ELSE Len(sorted_words))

extract_keywords(text, top_n) ==
  IF text = <<>> THEN <<>>
  ELSE LET cleaned == clean_text(lower(text))
           words == word_tokenize(cleaned)
           filtered_words == FilterWords(words)
           word_freq == CountWords(filtered_words, <<>>)
           sorted_words == SortByFreq(word_freq, <<>>)
           top == TopSlice(sorted_words, top_n)
       IN [i \in 1..Len(top) |-> top[i].word]

(***************************************************************************)
(* ATSMatcher.calculate_text_similarity                                    *)
(*                                                                         *)
(* The float returned is modelled by its class: "0.0", "1.0", or "between" *)
(* for a value strictly between the two.                                   *)
(***************************************************************************)
\* the stop words of TfidfVectorizer(stop_words='english') the explored
\* texts can spell
english_stop_words == {<<"t", "h", "e">>}

\* the tokens of the default token_pattern (?u)\b\w\w+\b: the maximal runs
\* of word characters that are at least two characters long
RECURSIVE WordRuns(_, _)
WordRuns(s, cur) ==
  LET flush == IF Len(cur) >= 2 THEN <<cur>> ELSE <<>>
  IN IF s = <<>> THEN flush
     ELSE IF Head(s) \in WordChars THEN WordRuns(Tail(s), Append(cur, Head(s)))
     ELSE flush \o WordRuns(Tail(s), <<>>)

\* the terms the vectorizer counts in one text: lowercased, tokenized,
\* stop words removed
Terms(text) ==
  SelectSeq(WordRuns(lower(text), <<>>), LAMBDA t : t \notin english_stop_words)

\* the term frequency of t in a list of terms
TermCount(t, terms) == Cardinality({i \in 1..Len(terms) : terms[i] = t})

\* cosine_similarity of the two rows of the TF-IDF matrix, as a class.  A
\* term of both texts has the same idf weight in both rows, so the rows
\* are parallel exactly when the texts have the same terms with
\* proportional counts; they are orthogonal exactly when no term is shared
\* (a text without terms has a zero row, whose similarity is 0).
Cosine(terms1, terms2) ==
  LET set1 == {terms1[i] : i \in 1..Len(terms1)}
      set2 == {terms2[i] : i \in 1..Len(terms2)}
  IN IF set1 \cap set2 = {} THEN "0.0"
     ELSE IF /\ set1 = set2
             /\ \A t, u \in set1 :
                  TermCount(t, terms1) * TermCount(u, terms2)
                    = TermCount(u, terms1) * TermCount(t, terms2)
     THEN "1.0"
     ELSE "between"

\* IsBlank without the strip
IsBlankUnstripped(text) == text = <<>>

\* not text.strip()
IsBlank(text) == strip(text) = <<>>

\* the fitted state of self.tfidf_vectorizer, by the vocabulary it was
\* fitted to (the idf weights are positive whatever the texts, and do not
\* change the class of the similarity)
Unfitted == [fitted |-> FALSE, vocabulary |-> {}]

\* the terms of a list of terms, as a set
TermSet(terms) == {terms[i] : i \in 1..Len(terms)}

\* the state fit_transform([text1, text2]) leaves the vectorizer in
FitTo(text1, text2) ==
  [fitted |-> TRUE,
   vocabulary |-> TermSet(Terms(text1)) \cup TermSet(Terms(text2))]

\* the vectorizer after one call: refitted, unless the call returned before
\* fit_transform or fit_transform raised on an empty vocabulary
VectorizerAfter(before, text1, text2) ==
  IF IsBlank(text1) \/ IsBlank(text2) THEN before
  ELSE IF FitTo(text1, text2).vocabulary = {} THEN before
  ELSE FitTo(text1, text2)

\* calculate_text_similarity without the except clause
SimilarityUncaught(text1, text2) ==
  IF IsBlank(text1) \/ IsBlank(text2)
  THEN [exc |-> "none", value |-> "0.0", log |-> <<>>]
  ELSE IF Terms(text1) = <<>> /\ Terms(text2) = <<>>
  THEN [exc |-> "ValueError", value |-> <<>>, log |-> <<"fit_transform">>]
  ELSE [exc |-> "none", value |-> Cosine(Terms(text1), Terms(text2)),
        log |-> <<"fit_transform", "cosine_similarity">>]

\* The call: what it returns and which library calls it made.  fit_transform
\* raises ValueError (empty vocabulary) when neither text has a term; the
\* except clause turns every exception into 0.0.
calculate_text_similarity(text1, text2) ==
  IF IsBlank(text1) \/ IsBlank(text2)
  THEN [exc |-> "none", value |-> "0.0", log |-> <<>>]
  ELSE IF Terms(text1) = <<>> /\ Terms(text2) = <<>>
  THEN [exc |-> "none", value |-> "0.0", log |-> <<"fit_transform">>]
  ELSE [exc |-> "none", value |-> Cosine(Terms(text1), Terms(text2)),
        log |-> <<"fit_transform", "cosine_similarity">>]

(***************************************************************************)
(* Float arithmetic of calculate_skills_match, as exact fractions.         *)
(***************************************************************************)
RECURSIVE GCD(_, _)
GCD(a, b) == IF b = 0 THEN a ELSE GCD(b, a % b)

\* the fraction n/d in lowest terms (d > 0, n >= 0)
Frac(n, d) == [num |-> n \div GCD(n, d), den |-> d \div GCD(n, d)]

FracMul(x, y) == Frac(x.num * y.num, x.den * y.den)

FracAdd(x, y) == Frac(x.num * y.den + y.num * x.den, x.den * y.den)

(***************************************************************************)
(* ATSMatcher.calculate_skills_match                                       *)
(***************************************************************************)
\* an argument that is None, and one that is a list
None == [none |-> TRUE, val |-> <<>>]

Some(l) == [none |-> FALSE, val |-> l]

\* [skill.lower().strip() for skill in skills]
NormalizeSkills(skills) == [i \in 1..Len(skills) |-> strip(lower(skills[i]))]

\* Contains, testing one direction only
ContainsOneWay(skill, res_skill) == IsSubstring(skill, res_skill)

\* the test of the inner loops
Contains(skill, res_skill) ==
  IsSubstring(skill, res_skill) \/ IsSubstring(res_skill, skill)

\* InnerLoop without the break: one append for every resume skill that qualifies
RECURSIVE InnerLoopNoBreak(_, _)
InnerLoopNoBreak(skill, resume_norm) ==
  IF resume_norm = <<>> THEN <<>>
  ELSE (IF Contains(skill, Head(resume_norm)) THEN <<skill>> ELSE <<>>)
         \o InnerLoopNoBreak(skill, Tail(resume_norm))

\* InnerLoop leaving the loop after the first resume skill, match or not
InnerLoopFirstOnly(skill, resume_norm) ==
  IF resume_norm # <<>> /\ Contains(skill, Head(resume_norm)) THEN <<skill>>
  ELSE <<>>

\* the inner loop over resume_skills_norm for one skill: what it appends.
\* The break ends it at the first resume skill that qualifies.
RECURSIVE InnerLoop(_, _)
InnerLoop(skill, resume_norm) ==
  IF resume_norm = <<>> THEN <<>>
  ELSE IF Contains(skill, Head(resume_norm)) THEN <<skill>>
  ELSE InnerLoop(skill, Tail(resume_norm))

\* the outer loop over the required (or the preferred) skills
RECURSIVE FindMatches(_, _)
FindMatches(skills_norm, resume_norm) ==
  IF skills_norm = <<>> THEN <<>>
  ELSE InnerLoop(Head(skills_norm), resume_norm)
         \o FindMatches(Tail(skills_norm), resume_norm)

\* x in l, for a list l
InList(x, l) == \E i \in 1..Len(l) : l[i] = x

\* Rate with 1.0 for every empty list
RateDefaultOne(matched, skills_norm, dflt) ==
  IF skills_norm # <<>> THEN Frac(Len(matched), Len(skills_norm)) ELSE Frac(1, 1)

\* len(matched) / len(skills_norm) if skills_norm else dflt
Rate(matched, skills_norm, dflt) ==
  IF skills_norm # <<>> THEN Frac(Len(matched), Len(skills_norm)) ELSE dflt

\* the divisions the two rate expressions execute
Divisions(required_norm, preferred_norm) ==
  (IF required_norm # <<>> THEN <<"div">> ELSE <<>>)
    \o (IF preferred_norm # <<>> THEN <<"div">> ELSE <<>>)

\* MissingRequired keeping one entry for each distinct missing skill
RECURSIVE MissingRequiredDistinct(_, _)
MissingRequiredDistinct(required_skills_norm, matched_required) ==
  IF required_skills_norm = <<>> THEN <<>>
  ELSE LET skill == Head(required_skills_norm)
       IN (IF InList(skill, matched_required) THEN <<>> ELSE <<skill>>)
            \o MissingRequiredDistinct(
                 SelectSeq(Tail(required_skills_norm), LAMBDA x : x # skill),
                 matched_required)

\* [skill for skill in required_skills_norm if skill not in matched_required]
MissingRequired(required_skills_norm, matched_required) ==
  SelectSeq(required_skills_norm,
            LAMBDA skill : ~InList(skill, matched_required))

\* EmptyResumeResult with the required skills normalized like on the other path
EmptyResumeResultNormalized(required_skills) ==
  [score |-> Frac(0, 1),
   matched_required |-> <<>>,
   matched_preferred |-> <<>>,
   missing_required |-> Some(NormalizeSkills(required_skills.val))]

\* the dict returned when resume_skills is empty: required_skills itself,
\* None included, is its missing_required
EmptyResumeResult(required_skills) ==
  [score |-> Frac(0, 1),
   matched_required |-> <<>>,
   matched_preferred |-> <<>>,
   missing_required |-> required_skills]

\* The call: what it returns (exc = "none") or raises, and what it executed.
\* Iterating over required_skills = None raises TypeError; preferred_skills
\* = None is replaced by [].
calculate_skills_match(resume_skills, required_skills, preferred_skills) ==
  IF resume_skills = <<>>
  THEN [exc |-> "none", value |-> EmptyResumeResult(required_skills),
        log |-> <<>>]
  ELSE IF required_skills.none
  THEN [exc |-> "TypeError", value |-> <<>>, log |-> <<>>]
  ELSE
    LET resume_skills_norm == NormalizeSkills(resume_skills)
        required_skills_norm == NormalizeSkills(required_skills.val)
        preferred_skills_norm ==
          NormalizeSkills(IF preferred_skills.none THEN <<>>
                          ELSE preferred_skills.val)
        matched_required == FindMatches(required_skills_norm, resume_skills_norm)
        matched_preferred == FindMatches(preferred_skills_norm, resume_skills_norm)
        required_score == Rate(matched_required, required_skills_norm, Frac(1, 1))
        preferred_score == Rate(matched_preferred, preferred_skills_norm, Frac(0, 1))
        overall_score == FracAdd(FracMul(required_score, Frac(8, 10)),
                                 FracMul(preferred_score, Frac(2, 10)))
        missing_required == MissingRequired(required_skills_norm, matched_required)
    IN [exc |-> "none",
        value |-> [score |-> FracMul(overall_score, Frac(100, 1)),
                   matched_required |-> matched_required,
                   matched_preferred |-> matched_preferred,
                   missing_required |-> Some(missing_required),
                   required_match_rate |-> FracMul(required_score, Frac(100, 1)),
                   preferred_match_rate |-> FracMul(preferred_score, Frac(100, 1))],
        log |-> Divisions(required_skills_norm, preferred_skills_norm)]

\* ArgumentsAfter with the normalization done in place
ArgumentsNormalizedInPlace(resume_skills, required_skills, preferred_skills) ==
  [resume_skills |-> NormalizeSkills(resume_skills),
   required_skills |-> IF required_skills.none THEN required_skills
                       ELSE Some(NormalizeSkills(required_skills.val)),
   preferred_skills |-> IF preferred_skills.none THEN preferred_skills
                        ELSE Some(NormalizeSkills(preferred_skills.val))]

\* The three argument lists when the call returns.  No statement of the
\* function writes to a list it was passed: the comprehensions build new
\* lists, (preferred_skills or []) is a new value, and the append calls are
\* on the lists created inside the function.
ArgumentsAfter(resume_skills, required_skills, preferred_skills) ==
  [resume_skills |-> resume_skills,
   required_skills |-> required_skills,
   preferred_skills |-> preferred_skills]

(***************************************************************************)
(* Python values whose type the pipeline depends on.                       *)
(*                                                                         *)
(* A value that json.loads may return is a record of its type and what it  *)
(* holds: a dict a record of its items, a list a sequence, an int a        *)
(* number, a str a sequence of characters.  Only the values the pipeline   *)
(* inspects are wrapped this way: the items of a dict are plain, except    *)
(* overall_score.                                                          *)
(***************************************************************************)
PyDict(items) == [type |-> "dict", items |-> items]

PyList(elements) == [type |-> "list", elements |-> elements]

PyInt(n) == [type |-> "int", n |-> n]

PyStr(chars) == [type |-> "str", chars |-> chars]

PyNone == [type |-> "NoneType"]

\* d.get(key, default)
Get(d, key, default) == IF key \in DOMAIN d.items THEN d.items[key] ELSE default

\* d[key] = value, on a dict
SetItem(d, key, value) == PyDict((key :> value) @@ d.items)

(***************************************************************************)
(* GeminiAIAnalyzer                                                        *)
(*                                                                         *)
(* A reply of the external service is [kind, json]: generate_content (or   *)
(* reading response.text) raises, or the text left after the code fence is *)
(* removed is not JSON ("invalid"), or it is JSON and json.loads returns   *)
(* the value json.                                                         *)
(***************************************************************************)
Raises == [kind |-> "raises", json |-> PyNone]

Invalid == [kind |-> "invalid", json |-> PyNone]

Json(value) == [kind |-> "json", json |-> value]

_get_empty_resume_structure ==
  PyDict([personal_info |-> [name |-> <<>>, email |-> <<>>, phone |-> <<>>,
                             location |-> <<>>, linkedin |-> <<>>,
                             github |-> <<>>],
          experiences |-> <<>>, education |-> <<>>, skills |-> <<>>,
          certifications |-> <<>>, projects |-> <<>>, keywords |-> <<>>])

_get_empty_job_structure ==
  PyDict([title |-> <<>>, company |-> <<>>, required_skills |-> <<>>,
          preferred_skills |-> <<>>, experience_level |-> <<>>,
          education_requirements |-> <<>>, responsibilities |-> <<>>,
          qualifications |-> <<>>, keywords |-> <<>>])

_get_default_score_structure ==
  PyDict([overall_score |-> PyInt(0),
          category_scores |-> [skills_match |-> 0, experience_match |-> 0,
                               education_match |-> 0, keywords_match |-> 0],
          strengths |-> <<>>, gaps |-> <<>>, missing_skills |-> <<>>,
          improvement_suggestions |-> <<>>,
          readiness_status |-> "NEEDS_IMPROVEMENT",
          detailed_analysis |-> [skills_analysis |-> <<>>,
                                 experience_analysis |-> <<>>,
                                 education_analysis |-> <<>>,
                                 overall_recommendation |-> <<>>]])

\* {"error": "Failed to generate improvement plan"}
FailedPlan == PyDict([error |-> "Failed to generate improvement plan"])

\* try: return json.loads(...)  except Exception: return default
LoadsOr(reply, default) == IF reply.kind = "json" THEN reply.json ELSE default

extract_resume_structured_data(reply) ==
  LoadsOr(reply, _get_empty_resume_structure)

extract_job_requirements(reply) == LoadsOr(reply, _get_empty_job_structure)

calculate_ats_score_with_reasoning(reply) ==
  LoadsOr(reply, _get_default_score_structure)

generate_improvement_plan(reply) == LoadsOr(reply, FailedPlan)

(***************************************************************************)
(* ATSAnalyzer.process_resume_and_job                                      *)
(***************************************************************************)
\* the stages at which the pipeline is still running
Stages == {"parse_resume", "parse_job", "score", "plan"}

\* the score below which an improvement plan is asked for
PassMark == 90

\* datetime.now().isoformat()
Now == "now"

\* BlankText taking whitespace for text
BlankTextUnstripped(resume_text) == resume_text = <<>>

\* not resume_text.strip()
BlankText(resume_text) == strip(resume_text) = <<>>

\* ErrorResult without the time stamp
ErrorResultUnstamped(error_message) ==
  [status |-> "error", error_message |-> error_message]

\* the record returned by the except clause
ErrorResult(error_message) ==
  [status |-> "error", error_message |-> error_message, processed_at |-> Now]

\* the record returned at the end of the try block
Results(resume_data, job_data, ats_analysis, improvement_plan) ==
  [resume_data |-> resume_data, job_data |-> job_data,
   ats_analysis |-> ats_analysis, improvement_plan |-> improvement_plan,
   processed_at |-> Now, status |-> "success"]

\* NeedsPlan asking for a plan at the pass mark too
NeedsPlanInclusive(overall_score) == overall_score <= PassMark

\* ats_analysis.get("overall_score", 0) < 90
NeedsPlan(overall_score) == overall_score < PassMark

\* str(e) of the exceptions the stages can raise
ExtractionFailure == "Could not extract text from PDF"

ItemAssignmentError == "list indices must be integers or slices, not str"

NoGetError == "'list' object has no attribute 'get'"

ComparisonError == "'<' not supported between instances of 'str' and 'int'"

(***************************************************************************)
(* The inputs explored.                                                    *)
(***************************************************************************)
\* all sequences over S of length at most n
SeqsUpTo(S, n) == UNION {[1..k -> S] : k \in 0..n}

\* the characters of the texts handed to clean_text
TextChars == {"a", " ", "\n", "#", "-"}

Texts == SeqsUpTo(TextChars, MaxTextLen)

\* the skill labels: " Py", "pyx", "sq" and " "
SkillLabels == {<<" ", "P", "y">>, <<"p", "y", "x">>, <<"s", "q">>, <<" ">>}

ResumeLists == SeqsUpTo(SkillLabels, MaxResume)

RequiredArgs == {None} \cup {Some(l) : l \in SeqsUpTo(SkillLabels, MaxRequired)}

PreferredArgs == {None} \cup {Some(l) : l \in SeqsUpTo(SkillLabels, MaxPreferred)}

\* the pieces the texts handed to extract_keywords are put together from:
\* "sql ", "Api,", "the ", "go", "x86 " and "#"
Pieces ==
  {<<"s", "q", "l", " ">>, <<"A", "p", "i", ",">>, <<"t", "h", "e", " ">>,
   <<"g", "o">>, <<"x", "8", "6", " ">>, <<"#">>}

\* the pieces of a list, one after the other
RECURSIVE Concat(_)
Concat(l) == IF l = <<>> THEN <<>> ELSE Head(l) \o Concat(Tail(l))

KeywordTexts == {Concat(l) : l \in SeqsUpTo(Pieces, MaxPieces)}

\* the pieces the texts handed to extract_contact_info are put together
\* from: "a.b@x.com", "c@y.org", "+1 ", "555-123-4567",
\* "linkedin.com/in/jd", "GitHub.com/j-d" and " "
ContactPieces ==
  {<<"a", ".", "b", "@", "x", ".", "c", "o", "m">>,
   <<"c", "@", "y", ".", "o", "r", "g">>,
   <<"+", "1", " ">>,
   <<"5", "5", "5", "-", "1", "2", "3", "-", "4", "5", "6", "7">>,
   <<"l", "i", "n", "k", "e", "d", "i", "n", ".", "c", "o", "m", "/", "i", "n", "/", "j", "d">>,
   <<"G", "i", "t", "H", "u", "b", ".", "c", "o", "m", "/", "j", "-", "d">>,
   <<" ">>}

ContactTexts == {Concat(l) : l \in SeqsUpTo(ContactPieces, MaxContactPieces)}

\* the pieces the texts handed to calculate_text_similarity are put
\* together from: "sql ", "Api ", "the " and " "
SimilarityPieces ==
  {<<"s", "q", "l", " ">>, <<"A", "p", "i", " ">>, <<"t", "h", "e", " ">>,
   <<" ">>}

SimilarityTexts ==
  {Concat(l) : l \in SeqsUpTo(SimilarityPieces, MaxSimilarityPieces)}

\* what pdfplumber makes of a page: None, "", " " or "a"
PlumberTexts == {None, Some(<<>>), Some(<<" ">>), Some(<<"a">>)}

\* what PyPDF2 makes of a page: "", " " or "b"
PyPdfTexts == {<<>>, <<" ">>, <<"b">>}

Pages == [plumber : PlumberTexts, pypdf : PyPdfTexts]

\* the PDF files of at most n pages
PdfFiles(n) ==
  [pages : SeqsUpTo(Pages, n), plumber_raises : BOOLEAN,
   pypdf_raises : BOOLEAN, seekable : BOOLEAN]

\* the one-page PDF files handed to the pipeline
PipelinePdfs ==
  [pages : {<<p>> : p \in Pages}, plumber_raises : BOOLEAN,
   pypdf_raises : BOOLEAN, seekable : BOOLEAN]

\* the job description handed to the pipeline: "sql"
JobDescriptions == {<<"s", "q", "l">>}

\* a JSON document that is not an object: []
NotAnObject == Json(PyList(<<>>))

\* the replies to the resume prompt
ResumeReplies ==
  {Raises, Invalid, NotAnObject, Json(PyDict([skills |-> <<<<"s", "q", "l">>>>]))}

\* the replies to the job prompt
JobReplies ==
  {Raises, Invalid, NotAnObject,
   Json(PyDict([required_skills |-> <<<<"s", "q", "l">>>>]))}

\* the overall_score of a reply: just below the pass mark, the pass mark,
\* or the string "85"
Scores == {PyInt(PassMark - 1), PyInt(PassMark), PyStr(<<"8", "5">>)}

Statuses == {"READY", "NEEDS_IMPROVEMENT"}

\* the objects replied to the scoring prompt, with and without overall_score
ScoreObjects ==
  {[overall_score |-> s, readiness_status |-> r] : s \in Scores, r \in Statuses}
    \cup {[readiness_status |-> r] : r \in Statuses}

\* the replies to the scoring prompt
ScoreReplies ==
  {Raises, Invalid, NotAnObject} \cup {Json(PyDict(o)) : o \in ScoreObjects}

\* the replies to the improvement plan prompt
PlanReplies ==
  {Raises, Invalid, NotAnObject, Json(PyDict([quick_wins |-> <<>>]))}

TopNs == 1..MaxTopN

(***************************************************************************)
(* The state machine: one synchronous call at a time.                      *)
(***************************************************************************)
NoValue == <<>>

Init ==
  /\ pc = "idle"
  /\ args = NoValue
  /\ ret = [exc |-> "none", value |-> NoValue]
  /\ log = <<>>
  /\ locals = NoValue
  /\ service = <<>>
  /\ passed = NoValue
  /\ vectorizer = Unfitted

CallCleanText ==
  /\ pc = "idle"
  /\ \E text \in Texts :
       /\ args' = [text |-> text]
       /\ ret' = [exc |-> "none", value |-> clean_text(text)]
  /\ log' = <<>>
  /\ pc' = "clean_text"
  /\ UNCHANGED <<locals, service, passed, vectorizer>>

CallSkillsMatch ==
  /\ pc = "idle"
  /\ \E resume_skills \in ResumeLists, required_skills \in RequiredArgs,
        preferred_skills \in PreferredArgs :
       LET r == calculate_skills_match(resume_skills, required_skills,
                                       preferred_skills)
       IN /\ args' = [resume_skills |-> resume_skills,
                      required_skills |-> required_skills,
                      preferred_skills |-> preferred_skills]
          /\ ret' = [exc |-> r.exc, value |-> r.value]
          /\ log' = r.log
          /\ passed' = ArgumentsAfter(resume_skills, required_skills,
                                      preferred_skills)
  /\ pc' = "calculate_skills_match"
  /\ UNCHANGED <<locals, service, vectorizer>>

CallExtractKeywords ==
  /\ pc = "idle"
  /\ \E text \in KeywordTexts, top_n \in TopNs :
       /\ args' = [text |-> text, top_n |-> top_n]
       /\ ret' = [exc |-> "none", value |-> extract_keywords(text, top_n)]
  /\ log' = <<>>
  /\ pc' = "extract_keywords"
  /\ UNCHANGED <<locals, service, passed, vectorizer>>

CallExtractContactInfo ==
  /\ pc = "idle"
  /\ \E text \in ContactTexts :
       /\ args' = [text |-> text]
       /\ ret' = [exc |-> "none", value |-> extract_contact_info(text)]
  /\ log' = <<>>
  /\ pc' = "extract_contact_info"
  /\ UNCHANGED <<locals, service, passed, vectorizer>>

CallTextSimilarity ==
  /\ pc = "idle"
  /\ \E text1 \in SimilarityTexts, text2 \in SimilarityTexts :
       LET r == calculate_text_similarity(text1, text2)
       IN /\ args' = [text1 |-> text1, text2 |-> text2]
          /\ ret' = [exc |-> r.exc, value |-> r.value]
          /\ log' = r.log
          /\ vectorizer' = VectorizerAfter(vectorizer, text1, text2)
  /\ pc' = "calculate_text_similarity"
  /\ UNCHANGED <<locals, service, passed>>

CallExtractText ==
  /\ pc = "idle"
  /\ \E pdf_file \in PdfFiles(MaxPages) :
       LET r == extract_text_from_pdf(pdf_file)
       IN /\ args' = [pdf_file |-> pdf_file]
          /\ ret' = [exc |-> "none", value |-> r.value]
          /\ log' = r.log
  /\ pc' = "extract_text_from_pdf"
  /\ UNCHANGED <<locals, service, passed, vectorizer>>

\* the except clause: the pipeline returns the error record
Fail(error_message) ==
  /\ pc' = "process_resume_and_job"
  /\ ret' = [exc |-> "none", value |-> ErrorResult(error_message)]
  /\ locals' = NoValue

\* Ask repeating the request once when the call raised
AskTwice(call, reply) ==
  /\ log' = IF reply.kind = "raises" THEN Append(Append(log, call), call)
            ELSE Append(log, call)
  /\ service' = Append(service, [call |-> call, reply |-> reply])

\* one call of the external service, answered by reply
Ask(call, reply) ==
  /\ log' = Append(log, call)
  /\ service' = Append(service, [call |-> call, reply |-> reply])

\* Step 1: extract the text of the PDF
ProcessExtractText ==
  /\ pc = "idle"
  /\ \E pdf_file \in PipelinePdfs, job_description \in JobDescriptions :
       LET r == extract_text_from_pdf(pdf_file)
       IN /\ args' = [pdf_file |-> pdf_file, job_description |-> job_description]
          /\ log' = r.log
          /\ IF BlankText(r.value.text)
             THEN Fail(ExtractionFailure)
             ELSE /\ pc' = "parse_resume"
                  /\ locals' = [resume_text |-> r.value.text]
                  /\ UNCHANGED ret
  /\ UNCHANGED <<service, passed, vectorizer>>

\* Step 2: parse the resume with the external service
ProcessParseResume ==
  /\ pc = "parse_resume"
  /\ \E reply \in ResumeReplies :
       LET resume_data == extract_resume_structured_data(reply)
       IN /\ Ask("extract_resume_structured_data", reply)
          /\ IF resume_data.type = "dict"
             THEN /\ pc' = "parse_job"
                  /\ locals' =
                       [resume_data |->
                          SetItem(resume_data, "raw_text", locals.resume_text)]
                       @@ locals
                  /\ UNCHANGED ret
             ELSE Fail(ItemAssignmentError)
  /\ UNCHANGED <<args, passed, vectorizer>>

\* Step 3: parse the job description with the external service
ProcessParseJob ==
  /\ pc = "parse_job"
  /\ \E reply \in JobReplies :
       LET job_data == extract_job_requirements(reply)
       IN /\ Ask("extract_job_requirements", reply)
          /\ IF job_data.type = "dict"
             THEN /\ pc' = "score"
                  /\ locals' =
                       [job_data |->
                          SetItem(job_data, "raw_text", args.job_description)]
                       @@ locals
                  /\ UNCHANGED ret
             ELSE Fail(ItemAssignmentError)
  /\ UNCHANGED <<args, passed, vectorizer>>

\* Step 4: score the resume against the job with the external service
ProcessScore ==
  /\ pc = "score"
  /\ \E reply \in ScoreReplies :
       /\ Ask("calculate_ats_score_with_reasoning", reply)
       /\ locals' =
            [ats_analysis |-> calculate_ats_score_with_reasoning(reply)]
            @@ locals
  /\ pc' = "plan"
  /\ UNCHANGED <<args, ret, passed, vectorizer>>

\* the pipeline returns the results record
Succeed(improvement_plan) ==
  /\ pc' = "process_resume_and_job"
  /\ ret' = [exc |-> "none",
             value |-> Results(locals.resume_data, locals.job_data,
                               locals.ats_analysis, improvement_plan)]
  /\ locals' = NoValue

\* Step 5 and the compilation of the results: ask for an improvement plan if
\* the score is below the pass mark, and return
ProcessPlan ==
  /\ pc = "plan"
  /\ IF locals.ats_analysis.type # "dict"
     THEN Fail(NoGetError) /\ UNCHANGED <<log, service>>
     ELSE LET overall_score == Get(locals.ats_analysis, "overall_score", PyInt(0))
          IN IF overall_score.type # "int"
             THEN Fail(ComparisonError) /\ UNCHANGED <<log, service>>
             ELSE IF NeedsPlan(overall_score.n)
             THEN \E reply \in PlanReplies :
                    /\ Ask("generate_improvement_plan", reply)
                    /\ Succeed(generate_improvement_plan(reply))
             ELSE Succeed(PyNone) /\ UNCHANGED <<log, service>>
  /\ UNCHANGED <<args, passed, vectorizer>>

\* the caller has read the result and is ready for the next call
Return ==
  /\ pc \notin {"idle"} \cup Stages
  /\ pc' = "idle"
  /\ args' = NoValue
  /\ ret' = [exc |-> "none", value |-> NoValue]
  /\ log' = <<>>
  /\ locals' = NoValue
  /\ service' = <<>>
  /\ passed' = NoValue
  /\ UNCHANGED vectorizer

Next ==
  \/ CallCleanText
  \/ CallSkillsMatch
  \/ CallExtractKeywords
  \/ CallExtractContactInfo
  \/ CallTextSimilarity
  \/ CallExtractText
  \/ ProcessExtractText
  \/ ProcessParseResume
  \/ ProcessParseJob
  \/ ProcessScore
  \/ ProcessPlan
  \/ Return

Spec == Init /\ [][Next]_vars

(***************************************************************************)
(* Text normalization                                                      *)
(***************************************************************************)
\* C1: clean_text is idempotent: cleaning a text that clean_text returned
\* gives the same text again, whatever the input text was.
CleanTextIdempotent ==
  pc = "clean_text" => clean_text(ret.value) = ret.value

(***************************************************************************)
(* Skill matching                                                          *)
(***************************************************************************)
\* C2: with a non-empty resume list, a normalized required skill is in
\* matched_required exactly when some normalized resume skill contains it or
\* is contained in it; an entry is added at most once however many resume
\* skills qualify; preferred skills follow the same rule on their own.
MatchedIffContained ==
  (pc = "calculate_skills_match" /\ args.resume_skills # <<>>
     /\ ~args.required_skills.none) =>
    LET rn == NormalizeSkills(args.resume_skills)
        qn == NormalizeSkills(args.required_skills.val)
        pn == NormalizeSkills(IF args.preferred_skills.none THEN <<>>
                              ELSE args.preferred_skills.val)
        Qualifies(x) ==
          \E j \in 1..Len(rn) : IsSubstring(x, rn[j]) \/ IsSubstring(rn[j], x)
        Count(x, l) == Cardinality({i \in 1..Len(l) : l[i] = x})
        mr == ret.value.matched_required
        mp == ret.value.matched_preferred
    IN /\ ret.exc = "none"
       /\ \A i \in 1..Len(qn) :
            /\ InList(qn[i], mr) <=> Qualifies(qn[i])
            /\ Count(qn[i], mr) <= Count(qn[i], qn)
       /\ \A i \in 1..Len(mr) : InList(mr[i], qn)
       /\ \A i \in 1..Len(pn) :
            /\ InList(pn[i], mp) <=> Qualifies(pn[i])
            /\ Count(pn[i], mp) <= Count(pn[i], pn)
       /\ \A i \in 1..Len(mp) : InList(mp[i], pn)

\* a required skill that two resume skills qualify for is matched once, next
\* to a required skill that is not matched and a preferred skill that is
MatchedIffContainedWitness ==
  /\ pc = "calculate_skills_match"
  /\ ret.exc = "none"
  /\ Len(args.resume_skills) = 2
  /\ ~args.required_skills.none
  /\ Len(args.required_skills.val) = 2
  /\ LET rn == NormalizeSkills(args.resume_skills)
         qn == NormalizeSkills(args.required_skills.val)
     IN /\ rn[1] # rn[2]
        /\ IsSubstring(qn[1], rn[1])
        /\ IsSubstring(qn[1], rn[2])
        /\ ret.value.matched_required = <<qn[1]>>
        /\ ret.value.missing_required.val = <<qn[2]>>
  /\ Len(ret.value.matched_preferred) = 1

\* C3: with a non-empty resume list the score is
\* (required_rate * 0.8 + preferred_rate * 0.2) * 100, with required_rate =
\* |matched_required| / |required| (1 for no required skills) and
\* preferred_rate = |matched_preferred| / |preferred| (0 for no preferred
\* skills); the two match rates are the rates times 100; one of two required
\* skills matched and no preferred skills gives 50 and 40.
ScoreFormula ==
  (pc = "calculate_skills_match" /\ args.resume_skills # <<>>
     /\ ~args.required_skills.none) =>
    LET nr == Len(args.required_skills.val)
        np == IF args.preferred_skills.none THEN 0
              ELSE Len(args.preferred_skills.val)
        mr == Len(ret.value.matched_required)
        mp == Len(ret.value.matched_preferred)
        \* the rates as numerator and denominator
        rnum == IF nr = 0 THEN 1 ELSE mr
        rden == IF nr = 0 THEN 1 ELSE nr
        pnum == IF np = 0 THEN 0 ELSE mp
        pden == IF np = 0 THEN 1 ELSE np
        score == ret.value.score
        rrate == ret.value.required_match_rate
        prate == ret.value.preferred_match_rate
    IN /\ ret.exc = "none"
       /\ score.den > 0 /\ rrate.den > 0 /\ prate.den > 0
       \* score = (rnum/rden * 8/10 + pnum/pden * 2/10) * 100
       /\ score.num * (rden * pden)
            = (80 * rnum * pden + 20 * pnum * rden) * score.den
       /\ rrate.num * rden = 100 * rnum * rrate.den
       /\ prate.num * pden = 100 * pnum * prate.den
       /\ (nr = 2 /\ mr = 1 /\ np = 0) =>
            /\ rrate = [num |-> 50, den |-> 1]
            /\ score = [num |-> 40, den |-> 1]

\* one of two required skills matched, no preferred skills: 50 and 40
ScoreFormulaWitness ==
  /\ pc = "calculate_skills_match"
  /\ ret.exc = "none"
  /\ args.resume_skills # <<>>
  /\ ~args.required_skills.none /\ Len(args.required_skills.val) = 2
  /\ ~args.preferred_skills.none /\ args.preferred_skills.val = <<>>
  /\ Len(ret.value.matched_required) = 1
  /\ ret.value.required_match_rate = [num |-> 50, den |-> 1]
  /\ ret.value.score = [num |-> 40, den |-> 1]

\* C4: for all skill lists, empty ones and ones with duplicates included,
\* the score is in [0, 100], and no more skills are matched than were asked
\* for, required or preferred.
ScoreInRange ==
  (pc = "calculate_skills_match" /\ ret.exc = "none") =>
    LET nr == IF args.required_skills.none THEN 0
              ELSE Len(args.required_skills.val)
        np == IF args.preferred_skills.none THEN 0
              ELSE Len(args.preferred_skills.val)
    IN /\ ret.value.score.den > 0
       /\ 0 <= ret.value.score.num
       /\ ret.value.score.num <= 100 * ret.value.score.den
       /\ Len(ret.value.matched_required) <= nr
       /\ Len(ret.value.matched_preferred) <= np

\* the score 100, reached with a required skill listed twice that both
\* resume skills qualify for
ScoreInRangeWitness ==
  /\ pc = "calculate_skills_match"
  /\ ret.exc = "none"
  /\ Len(args.resume_skills) = 2
  /\ ~args.required_skills.none /\ Len(args.required_skills.val) = 2
  /\ args.required_skills.val[1] = args.required_skills.val[2]
  /\ LET rn == NormalizeSkills(args.resume_skills)
         qn == NormalizeSkills(args.required_skills.val)
     IN Contains(qn[1], rn[1]) /\ Contains(qn[1], rn[2])
  /\ Len(ret.value.matched_required) = 2
  /\ ret.value.score = [num |-> 100, den |-> 1]

\* C5: with an empty resume list the call returns score 0, no matched
\* required and no matched preferred skills, and the required_skills argument
\* itself, neither normalized nor reordered, as missing_required; it
\* executes no division.
EmptyResumeShortCircuit ==
  (pc = "calculate_skills_match" /\ args.resume_skills = <<>>) =>
    /\ ret.exc = "none"
    /\ ret.value.score = [num |-> 0, den |-> 1]
    /\ ret.value.matched_required = <<>>
    /\ ret.value.matched_preferred = <<>>
    /\ ret.value.missing_required = args.required_skills
    /\ \A i \in 1..Len(log) : log[i] # "div"

\* an empty resume list with two required skills that normalization changes
EmptyResumeShortCircuitWitness ==
  /\ pc = "calculate_skills_match"
  /\ args.resume_skills = <<>>
  /\ ~args.required_skills.none
  /\ Len(args.required_skills.val) = 2
  /\ NormalizeSkills(args.required_skills.val) # args.required_skills.val
  /\ ret.value.missing_required.val = args.required_skills.val

\* C6: with a non-empty resume list missing_required is the normalized
\* required skills that are not in matched_required, in input order; every
\* required entry is in exactly one of matched_required and
\* missing_required, and the two lengths add up to the number of required
\* skills, duplicates included.
MissingIsTheRest ==
  (pc = "calculate_skills_match" /\ args.resume_skills # <<>>
     /\ ~args.required_skills.none) =>
    LET qn == NormalizeSkills(args.required_skills.val)
        mr == ret.value.matched_required
        missing == ret.value.missing_required
    IN /\ ret.exc = "none"
       /\ ~missing.none
       /\ missing.val
            = SelectSeq(qn, LAMBDA x : \A k \in 1..Len(mr) : mr[k] # x)
       /\ \A i \in 1..Len(qn) :
            (\E k \in 1..Len(mr) : mr[k] = qn[i])
              # (\E k \in 1..Len(missing.val) : missing.val[k] = qn[i])
       /\ Len(mr) + Len(missing.val) = Len(qn)

\* a required skill listed twice that no resume skill qualifies for
MissingIsTheRestWitness ==
  /\ pc = "calculate_skills_match"
  /\ ret.exc = "none"
  /\ args.resume_skills # <<>>
  /\ ~args.required_skills.none /\ Len(args.required_skills.val) = 2
  /\ LET qn == NormalizeSkills(args.required_skills.val)
     IN /\ qn[1] = qn[2]
        /\ ret.value.missing_required.val = qn
  /\ ret.value.matched_required = <<>>

\* C7: monotonicity: when a required skill is not matched under the resume
\* list R (empty or not) and a skill that contains it or is contained in it
\* is added to R, matched_required gets longer and the score does not get
\* smaller.
MatchMonotone ==
  (pc = "calculate_skills_match" /\ ret.exc = "none"
     /\ ~args.required_skills.none) =>
    \A s \in SkillLabels :
      LET qn == NormalizeSkills(args.required_skills.val)
          sn == strip(lower(s))
          old == ret.value
          new == calculate_skills_match(Append(args.resume_skills, s),
                                        args.required_skills,
                                        args.preferred_skills)
      IN (\E i \in 1..Len(qn) :
            /\ ~InList(qn[i], old.matched_required)
            /\ IsSubstring(qn[i], sn) \/ IsSubstring(sn, qn[i]))
         => /\ new.exc = "none"
            /\ Len(new.value.matched_required) > Len(old.matched_required)
            /\ old.score.num * new.value.score.den
                 <= new.value.score.num * old.score.den

\* a non-empty resume list that leaves a required skill unmatched, and a
\* label that contains that skill
MatchMonotoneWitness ==
  /\ pc = "calculate_skills_match"
  /\ ret.exc = "none"
  /\ args.resume_skills # <<>>
  /\ ~args.required_skills.none
  /\ ret.value.matched_preferred # <<>>
  /\ LET qn == NormalizeSkills(args.required_skills.val)
     IN \E i \in 1..Len(qn), s \in SkillLabels :
          /\ ~InList(qn[i], ret.value.matched_required)
          /\ IsSubstring(qn[i], strip(lower(s)))
          /\ Len(calculate_skills_match(Append(args.resume_skills, s),
                                        args.required_skills,
                                        args.preferred_skills)
                   .value.matched_required)
               = Len(ret.value.matched_required) + 1

\* C8: a call whose required_skills or preferred_skills is None returns,
\* without an exception, what it returns for an empty list in its place,
\* be the resume list empty or not.
AbsentSkillsAreEmpty ==
  (pc = "calculate_skills_match"
     /\ (args.required_skills.none \/ args.preferred_skills.none)) =>
    LET OrEmpty(a) == IF a.none THEN Some(<<>>) ELSE a
    IN /\ ret.exc = "none"
       /\ ret.value = calculate_skills_match(args.resume_skills,
                                             OrEmpty(args.required_skills),
                                             OrEmpty(args.preferred_skills)).value

\* C9: every result of calculate_skills_match, on the empty-resume path and
\* on the normal path, has the score, the two matched lists, the missing
\* list and the two match rates.
CompleteMatchResult ==
  (pc = "calculate_skills_match" /\ ret.exc = "none") =>
    DOMAIN ret.value = {"score", "matched_required", "matched_preferred",
                        "missing_required", "required_match_rate",
                        "preferred_match_rate"}

(***************************************************************************)
(* Keyword extraction                                                      *)
(***************************************************************************)
\* C10: for every text and every positive top_n, extract_keywords returns
\* at most top_n entries, and for the empty text it returns the empty list;
\* it does not raise.
KeywordBound ==
  pc = "extract_keywords" =>
    /\ ret.exc = "none"
    /\ Len(ret.value) <= args.top_n
    /\ args.text = <<>> => ret.value = <<>>

\* a text with more distinct keywords than top_n, cut to top_n entries
KeywordBoundWitness ==
  /\ pc = "extract_keywords"
  /\ Len(ret.value) = args.top_n
  /\ Len(CountWords(FilterWords(word_tokenize(clean_text(lower(args.text)))),
                    <<>>)) > args.top_n


\* C11: the returned list is in descending order of the frequency of the
\* filtered tokens, terms of equal frequency in the order of their first
\* occurrence in the token stream; the list is the first top_n terms of
\* that order.
KeywordOrder ==
  pc = "extract_keywords" =>
    LET toks == FilterWords(word_tokenize(clean_text(lower(args.text))))
        Count(w) == Cardinality({k \in 1..Len(toks) : toks[k] = w})
        First(w) == CHOOSE k \in 1..Len(toks) :
                      toks[k] = w /\ \A j \in 1..(k - 1) : toks[j] # w
        Before(a, b) ==
          \/ Count(a) > Count(b)
          \/ Count(a) = Count(b) /\ First(a) < First(b)
        distinct == {toks[k] : k \in 1..Len(toks)}
        v == ret.value
    IN /\ \A i \in 1..Len(v) : v[i] \in distinct
       /\ \A i, j \in 1..Len(v) : i < j => Before(v[i], v[j])
       /\ \A w \in distinct :
            (\A i \in 1..Len(v) : v[i] # w)
              => \A i \in 1..Len(v) : Before(v[i], w)
       /\ Len(v) = IF args.top_n < Cardinality(distinct) THEN args.top_n
                   ELSE Cardinality(distinct)

\* a term that occurs twice is returned before a term that occurs once and
\* comes first in the text
KeywordOrderWitness ==
  /\ pc = "extract_keywords"
  /\ Len(ret.value) = 2
  /\ LET toks == FilterWords(word_tokenize(clean_text(lower(args.text))))
     IN /\ Len(toks) = 3
        /\ toks[1] = ret.value[2]
        /\ toks[2] = ret.value[1]
        /\ toks[3] = ret.value[1]

\* C12 as stated: every entry of the returned list is a pair of a term and
\* the number of occurrences of that term among the filtered tokens.
KeywordEntriesArePairs ==
  pc = "extract_keywords" =>
    LET toks == FilterWords(word_tokenize(clean_text(lower(args.text))))
        Count(w) == Cardinality({k \in 1..Len(toks) : toks[k] = w})
    IN \A i \in 1..Len(ret.value) :
         /\ Len(ret.value[i]) = 2
         /\ InList(ret.value[i][1], toks)
         /\ ret.value[i][2] = Count(ret.value[i][1])

\* C12 as amended: every entry of the returned list is a term only, a
\* string that is one of the filtered tokens (a token of the cleaned,
\* lowercased text that is alphabetic, longer than two characters and no
\* stopword); no term is returned twice, and no frequency is returned.
KeywordEntriesAreTerms ==
  pc = "extract_keywords" =>
    LET words == word_tokenize(clean_text(lower(args.text)))
        v == ret.value
    IN /\ \A i \in 1..Len(v) :
            /\ InList(v[i], words)
            /\ v[i] \notin stop_words
            /\ Len(v[i]) > 2
            /\ \A k \in 1..Len(v[i]) : v[i][k] \in Lowercase
       /\ \A i, j \in 1..Len(v) : v[i] = v[j] => i = j

\* a text whose first keyword occurs twice, asked for one keyword: the
\* result is that term alone
KeywordEntriesAreTermsWitness ==
  /\ pc = "extract_keywords"
  /\ args.top_n = 1
  /\ LET toks == FilterWords(word_tokenize(clean_text(lower(args.text))))
     IN /\ Len(toks) = 3
        /\ toks[1] = toks[2]
        /\ toks[3] # toks[1]
        /\ ret.value = <<toks[1]>>


(***************************************************************************)
(* Contact extraction                                                      *)
(***************************************************************************)
\* C13: each of email, phone, linkedin and github is the whole text of the
\* leftmost match of its pattern (linkedin and github after "https://") and
\* is empty exactly when the pattern matches nowhere; a phone number in the
\* text is returned whole, not as its country-code prefix.
ContactFieldsAreFirstMatches ==
  pc = "extract_contact_info" =>
    LET email == FindFirst(email_pattern, args.text)
        phone == PhoneFirstMatchFrom(args.text, 1)
        linkedin == FindFirst(linkedin_pattern, args.text)
        github == FindFirst(github_pattern, args.text)
    IN /\ ret.value.email = email.text
       /\ (ret.value.email = <<>>) <=> ~email.found
       /\ ret.value.phone = phone.whole
       /\ (ret.value.phone = <<>>) <=> ~phone.found
       /\ ret.value.linkedin
            = IF linkedin.found THEN HttpsPrefix \o linkedin.text ELSE <<>>
       /\ ret.value.github
            = IF github.found THEN HttpsPrefix \o github.text ELSE <<>>


(***************************************************************************)
(* Text similarity                                                         *)
(***************************************************************************)
\* C14: calculate_text_similarity returns 0.0 whenever one of the two texts
\* is empty or consists of whitespace only, and then fit_transform is not
\* called.
BlankTextGivesZero ==
  (pc = "calculate_text_similarity"
     /\ (strip(args.text1) = <<>> \/ strip(args.text2) = <<>>)) =>
    /\ ret.exc = "none"
    /\ ret.value = "0.0"
    /\ \A i \in 1..Len(log) : log[i] # "fit_transform"

\* a text of whitespace only compared with a text that has terms
BlankTextGivesZeroWitness ==
  /\ pc = "calculate_text_similarity"
  /\ args.text1 # <<>>
  /\ strip(args.text1) = <<>>
  /\ Terms(args.text2) # <<>>
  /\ ret.value = "0.0"
  /\ log = <<>>


(***************************************************************************)
(* Text extraction                                                         *)
(***************************************************************************)
\* C15 as stated: when the primary pass raises or yields no text but
\* whitespace on every page and the fallback yields a non-empty text, the
\* result is the fallback's text tagged with the provenance "fallback";
\* when the primary pass yields text that is not whitespace only, the
\* fallback is not attempted and the primary text is returned.
FallbackResultIsTagged ==
  pc = "extract_text_from_pdf" =>
    LET pdf == args.pdf_file
        primary_text ==
          \E i \in 1..Len(pdf.pages) :
            /\ ~pdf.pages[i].plumber.none
            /\ strip(pdf.pages[i].plumber.val) # <<>>
        primary_ok == ~pdf.plumber_raises /\ primary_text
        fallback_ok == ~pdf.pypdf_raises /\ FallbackText(pdf.pages) # <<>>
    IN /\ (~primary_ok /\ fallback_ok) =>
            /\ ret.value.text = FallbackText(pdf.pages)
            /\ "provenance" \in DOMAIN ret.value
            /\ ret.value.provenance = "fallback"
       /\ primary_ok =>
            /\ ret.value.text = PrimaryText(pdf.pages)
            /\ \A i \in 1..Len(log) : log[i] # "fallback"

\* C15 as amended: in the first case the string returned is the fallback's
\* text, and the result is that string alone, without a provenance tag; in
\* the second case the fallback is not attempted and the primary text is
\* returned.
FallbackResultIsReturned ==
  pc = "extract_text_from_pdf" =>
    LET pdf == args.pdf_file
        primary_text ==
          \E i \in 1..Len(pdf.pages) :
            /\ ~pdf.pages[i].plumber.none
            /\ strip(pdf.pages[i].plumber.val) # <<>>
        primary_ok == ~pdf.plumber_raises /\ primary_text
        fallback_ok == ~pdf.pypdf_raises /\ FallbackText(pdf.pages) # <<>>
    IN /\ DOMAIN ret.value = {"text"}
       /\ (~primary_ok /\ fallback_ok) =>
            /\ ret.value.text = FallbackText(pdf.pages)
            /\ \E i \in 1..Len(log) : log[i] = "fallback"
       /\ primary_ok =>
            /\ ret.value.text = PrimaryText(pdf.pages)
            /\ \A i \in 1..Len(log) : log[i] # "fallback"

\* pdfplumber finds whitespace on every page, PyPDF2 finds text: the
\* PyPDF2 text is returned
FallbackResultIsReturnedWitness ==
  /\ pc = "extract_text_from_pdf"
  /\ ~args.pdf_file.plumber_raises
  /\ Len(args.pdf_file.pages) = 2
  /\ \A i \in 1..2 : args.pdf_file.pages[i].plumber = Some(<<" ">>)
  /\ strip(FallbackText(args.pdf_file.pages)) # <<>>
  /\ ret.value.text = FallbackText(args.pdf_file.pages)
  /\ log = <<"primary", "seek", "fallback">>


(***************************************************************************)
(* The pipeline                                                            *)
(***************************************************************************)
\* the pipeline has returned
Returned == pc = "process_resume_and_job"

\* the calls of the external service
ExternalCalls ==
  {"extract_resume_structured_data", "extract_job_requirements",
   "calculate_ats_score_with_reasoning", "generate_improvement_plan"}

\* neither library gets text other than whitespace out of the file
NoTextIn(pdf_file) ==
  /\ pdf_file.plumber_raises \/ strip(PrimaryText(pdf_file.pages)) = <<>>
  /\ pdf_file.pypdf_raises \/ strip(FallbackText(pdf_file.pages)) = <<>>

\* C16: when neither extraction attempt yields text other than whitespace,
\* the run ends with status "error" and the extraction failure as its
\* reason, and no call of the external service is made.
BlankExtractionEndsInError ==
  (pc \in Stages \cup {"process_resume_and_job"} /\ NoTextIn(args.pdf_file))
    => /\ Returned
       /\ ret.exc = "none"
       /\ ret.value.status = "error"
       /\ ret.value.error_message = ExtractionFailure
       /\ service = <<>>
       /\ \A i \in 1..Len(log) : log[i] \notin ExternalCalls

\* a run on a file whose pages hold only whitespace, read by both libraries
BlankExtractionEndsInErrorWitness ==
  /\ Returned
  /\ NoTextIn(args.pdf_file)
  /\ ~args.pdf_file.plumber_raises
  /\ ~args.pdf_file.pypdf_raises
  /\ args.pdf_file.pages[1].pypdf = <<" ">>
  /\ ret.value.status = "error"
  /\ log = <<"primary", "seek", "fallback">>


\* C17: every call of process_resume_and_job returns a record and never
\* raises: status is "success" or "error", processed_at is always present,
\* error_message is present exactly when status is "error", and
\* resume_data, job_data, ats_analysis and improvement_plan are present
\* when status is "success".
AlwaysReturnsResultRecord ==
  Returned =>
    /\ ret.exc = "none"
    /\ "status" \in DOMAIN ret.value
    /\ ret.value.status \in {"success", "error"}
    /\ "processed_at" \in DOMAIN ret.value
    /\ ("error_message" \in DOMAIN ret.value) <=> (ret.value.status = "error")
    /\ ret.value.status = "success"
         => {"resume_data", "job_data", "ats_analysis", "improvement_plan"}
              \subseteq DOMAIN ret.value

\* a run in which the exception of a later stage was caught: the service
\* has replied three times and the comparison of the score raised
AlwaysReturnsResultRecordWitness ==
  /\ Returned
  /\ Len(service) = 3
  /\ ret.value.status = "error"
  /\ ret.value.error_message = ComparisonError

\* the overall_score the pipeline reads in a score record: 0 when missing
ScoreOf(ats_analysis) == Get(ats_analysis, "overall_score", PyInt(0)).n

\* C18: generate_improvement_plan is called only if the overall_score of the
\* score record (0 when missing) is below 90, and only after the scoring
\* call; a successful run with overall_score >= 90 returns no
\* improvement_plan (None).
PlanOnlyBelowPassMark ==
  /\ \A i \in 1..Len(log) :
       log[i] = "generate_improvement_plan"
         => /\ \E j \in 1..(i - 1) : log[j] = "calculate_ats_score_with_reasoning"
            /\ Returned
            /\ ret.value.status = "success"
            /\ ScoreOf(ret.value.ats_analysis) < PassMark
  /\ (Returned /\ ret.value.status = "success"
        /\ ScoreOf(ret.value.ats_analysis) >= PassMark)
       => ret.value.improvement_plan.type = "NoneType"

\* a successful run whose score is the pass mark, without a plan
PlanOnlyBelowPassMarkWitness ==
  /\ Returned
  /\ ret.value.status = "success"
  /\ ScoreOf(ret.value.ats_analysis) = PassMark
  /\ ret.value.improvement_plan = PyNone
  /\ log[Len(log)] = "calculate_ats_score_with_reasoning"


\* C19: in every result record with status "success", the readiness_status
\* of ats_analysis is "READY" if and only if its overall_score is at least
\* 90, and "NEEDS_IMPROVEMENT" otherwise, whatever the scoring service
\* replied.  A record without overall_score counts as scored 0.
ReadinessFollowsScore ==
  (Returned /\ ret.value.status = "success")
    => LET ats_analysis == ret.value.ats_analysis
       IN /\ "readiness_status" \in DOMAIN ats_analysis.items
          /\ ats_analysis.items.readiness_status =
               (IF ScoreOf(ats_analysis) >= PassMark
                THEN "READY" ELSE "NEEDS_IMPROVEMENT")

\* the replies that are not a JSON object: the call raised, the text was not
\* JSON, or the JSON document is not an object
FailedReply(reply) == reply.kind # "json" \/ reply.json.type # "dict"

\* what the result record holds for a call whose reply was replaced by the
\* default structure
Substituted(call) ==
  CASE call = "extract_resume_structured_data" ->
         ret.value.resume_data =
           SetItem(_get_empty_resume_structure, "raw_text",
                   extract_text_from_pdf(args.pdf_file).value.text)
    [] call = "extract_job_requirements" ->
         ret.value.job_data =
           SetItem(_get_empty_job_structure, "raw_text", args.job_description)
    [] call = "calculate_ats_score_with_reasoning" ->
         ret.value.ats_analysis = _get_default_score_structure
    [] OTHER -> TRUE

\* C20: when text extraction succeeded and a call of the external service
\* (resume structure, job structure or scoring) raises, or returns text
\* that is not JSON or not a JSON object, the default structure takes the
\* place of that call's result and the run ends with status "success".
ServiceFailureIsAbsorbed ==
  (/\ Returned
   /\ ~BlankText(extract_text_from_pdf(args.pdf_file).value.text)
   /\ \E i \in 1..Len(service) :
        /\ service[i].call # "generate_improvement_plan"
        /\ FailedReply(service[i].reply))
    => /\ ret.value.status = "success"
       /\ \A i \in 1..Len(service) :
            FailedReply(service[i].reply) => Substituted(service[i].call)


\* C21: in every run of process_resume_and_job that ends with status
\* "success", calculate_skills_match was run before the run returned, and
\* the match result it produced is part of the returned record.
SkillMatcherRunBeforeSuccess ==
  (Returned /\ ret.value.status = "success")
    => /\ \E i \in 1..Len(log) : log[i] = "calculate_skills_match"
       /\ "match_result" \in DOMAIN ret.value


(***************************************************************************)
(* The attempts of extract_text_from_pdf                                   *)
(***************************************************************************)
\* how often an attempt occurs among the attempts made
Attempts(attempt) == Cardinality({i \in 1..Len(log) : log[i] = attempt})

\* the primary attempt is made once and first, the fallback at most once
\* and only after the primary raised or yielded no text but whitespace, and
\* nothing else is attempted
TwoTiers ==
  /\ log # <<>>
  /\ log[1] = "primary"
  /\ Attempts("primary") = 1
  /\ Attempts("fallback") <= 1
  /\ \A i \in 1..Len(log) : log[i] \in {"primary", "seek", "fallback"}
  /\ Attempts("fallback") = 1
       => /\ log[Len(log)] = "fallback"
          /\ \/ args.pdf_file.plumber_raises
             \/ ~HasText(PrimaryText(args.pdf_file.pages))

\* C23: in every execution of extract_text_from_pdf the primary extraction
\* is attempted exactly once and first; the fallback is attempted at most
\* once, only after the primary yielded no text but whitespace or raised,
\* and the stream is rewound to its start before the fallback reads it; no
\* third attempt is made.
RewoundTwoTierExtraction ==
  pc = "extract_text_from_pdf"
    => /\ TwoTiers
       /\ \A i \in 1..Len(log) :
            log[i] = "fallback" => (i > 1 /\ log[i - 1] = "seek")

\* C23, amended: as above, but the file is rewound before the fallback
\* reads it only if the file object has a seek method.
TwoTierExtraction ==
  pc = "extract_text_from_pdf"
    => /\ TwoTiers
       /\ \A i \in 1..Len(log) :
            log[i] = "fallback"
              => IF args.pdf_file.seekable
                 THEN i > 1 /\ log[i - 1] = "seek"
                 ELSE Attempts("seek") = 0

\* a two-page file whose pages pdfplumber reads as whitespace: the file is
\* rewound and read again with PyPDF2
TwoTierExtractionWitness ==
  /\ pc = "extract_text_from_pdf"
  /\ Len(args.pdf_file.pages) = MaxPages
  /\ ~args.pdf_file.plumber_raises
  /\ \A i \in 1..Len(args.pdf_file.pages) :
       args.pdf_file.pages[i].plumber = Some(<<" ">>)
  /\ args.pdf_file.seekable
  /\ log = <<"primary", "seek", "fallback">>


(***************************************************************************)
(* The calls of the pipeline                                               *)
(***************************************************************************)
\* the order in which the pipeline calls the external service
CallOrder ==
  <<"extract_resume_structured_data", "extract_job_requirements",
    "calculate_ats_score_with_reasoning", "generate_improvement_plan">>

\* the calls of the external service made so far, in order
CallsMade == SelectSeq(log, LAMBDA call : call \in ExternalCalls)

\* C24: within one run of process_resume_and_job each operation of the
\* external service is requested at most once, also after a failure, and
\* the requests come in the order resume structure, job structure, scoring
\* and then possibly improvement plan, all after text extraction succeeded.
ExternalCallsOnceInOrder ==
  pc \in Stages \cup {"process_resume_and_job"}
    => /\ Len(CallsMade) <= Len(CallOrder)
       /\ \A i \in 1..Len(CallsMade) : CallsMade[i] = CallOrder[i]
       /\ Len(service) = Len(CallsMade)
       /\ \A i \in 1..Len(service) : service[i].call = CallsMade[i]
       /\ CallsMade # <<>>
            => /\ ~BlankText(extract_text_from_pdf(args.pdf_file).value.text)
               /\ \A i, j \in 1..Len(log) :
                    (log[i] \notin ExternalCalls /\ log[j] \in ExternalCalls)
                      => i < j

\* a run in which the first three calls raised and the plan was asked for:
\* four requests, none repeated
ExternalCallsOnceInOrderWitness ==
  /\ Returned
  /\ CallsMade = CallOrder
  /\ \A i \in 1..(Len(service) - 1) : service[i].reply = Raises
  /\ ret.value.status = "success"


(***************************************************************************)
(* Failures of calculate_text_similarity                                   *)
(***************************************************************************)
\* C26: calculate_text_similarity never raises: when building the TF-IDF
\* vector space or computing the cosine fails (both texts hold only stop
\* words, so that the vocabulary is empty), the failure is caught and 0.0
\* is returned.
SimilarityNeverRaises ==
  pc = "calculate_text_similarity"
    => /\ ret.exc = "none"
       /\ ret.value \in {"0.0", "between", "1.0"}
       /\ (/\ ~IsBlank(args.text1)
           /\ ~IsBlank(args.text2)
           /\ Terms(args.text1) = <<>>
           /\ Terms(args.text2) = <<>>)
            => (ret.value = "0.0" /\ log = <<"fit_transform">>)

\* two texts of stop words only: fit_transform was called and raised
SimilarityNeverRaisesWitness ==
  /\ pc = "calculate_text_similarity"
  /\ args.text1 = <<"t", "h", "e", " ">>
  /\ args.text2 = <<"t", "h", "e", " ", "t", "h", "e", " ">>
  /\ log = <<"fit_transform">>
  /\ ret = [exc |-> "none", value |-> "0.0"]


Threads == {"first", "second"}

\* the texts of the threads: "sql ", "sql Api ", "the " and " "
ThreadTexts ==
  {<<"s", "q", "l", " ">>, <<"s", "q", "l", " ", "A", "p", "i", " ">>,
   <<"t", "h", "e", " ">>, <<" ">>}

\* the result of a call that has not returned yet
Pending == [exc |-> "none", value |-> "pending"]

ThreadsInit ==
  /\ pc = [t \in Threads |-> "start"]
  /\ args \in [Threads -> [text1 : ThreadTexts, text2 : ThreadTexts]]
  /\ ret = [t \in Threads |-> Pending]
  /\ locals = [t \in Threads |-> NoValue]
  /\ vectorizer = Unfitted
  /\ log = <<>>
  /\ service = <<>>
  /\ passed = NoValue

\* thread t returns value
ThreadReturn(t, value) ==
  /\ pc' = [pc EXCEPT ![t] = "done"]
  /\ ret' = [ret EXCEPT ![t] = [exc |-> "none", value |-> value]]

\* the guard on blank texts
ThreadCheck(t) ==
  /\ pc[t] = "start"
  /\ IF IsBlank(args[t].text1) \/ IsBlank(args[t].text2)
     THEN ThreadReturn(t, "0.0")
     ELSE pc' = [pc EXCEPT ![t] = "fit"] /\ UNCHANGED ret
  /\ UNCHANGED <<args, locals, vectorizer, log, service, passed>>

\* the fit of fit_transform: raises on an empty vocabulary, which the
\* except clause turns into 0.0, and stores the fitted state otherwise
ThreadFit(t) ==
  /\ pc[t] = "fit"
  /\ LET own == FitTo(args[t].text1, args[t].text2)
     IN IF own.vocabulary = {}
        THEN ThreadReturn(t, "0.0") /\ UNCHANGED vectorizer
        ELSE /\ vectorizer' = own
             /\ pc' = [pc EXCEPT ![t] = "transform"]
             /\ UNCHANGED ret
  /\ UNCHANGED <<args, locals, log, service, passed>>

\* the transform of fit_transform: weighs the counts of the thread's texts
\* with the idf weights stored in the vectorizer.  If the other thread has
\* refitted the vectorizer to a vocabulary of another size, the weights do
\* not fit the counts: depending on the library version the transform
\* raises, which the except clause turns into 0.0, or goes on with the
\* weights it found.
ThreadTransform(t) ==
  /\ pc[t] = "transform"
  /\ LET own == FitTo(args[t].text1, args[t].text2)
         go_on ==
           /\ locals' = [locals EXCEPT ![t] =
                           [tfidf_matrix |-> <<Terms(args[t].text1),
                                               Terms(args[t].text2)>>]]
           /\ pc' = [pc EXCEPT ![t] = "cosine"]
           /\ UNCHANGED ret
     IN IF Cardinality(vectorizer.vocabulary) = Cardinality(own.vocabulary)
        THEN go_on
        ELSE \/ ThreadReturn(t, "0.0") /\ UNCHANGED locals
             \/ go_on
  /\ UNCHANGED <<args, vectorizer, log, service, passed>>

\* cosine_similarity of the two rows of the thread's matrix
ThreadCosine(t) ==
  /\ pc[t] = "cosine"
  /\ ThreadReturn(t, Cosine(locals[t].tfidf_matrix[1],
                            locals[t].tfidf_matrix[2]))
  /\ UNCHANGED <<args, locals, vectorizer, log, service, passed>>

ThreadsNext ==
  \E t \in Threads :
    \/ ThreadCheck(t)
    \/ ThreadFit(t)
    \/ ThreadTransform(t)
    \/ ThreadCosine(t)

ThreadsSpec == ThreadsInit /\ [][ThreadsNext]_vars

\* C22: concurrent invocations share no mutable state: in every
\* interleaving of two calls of calculate_text_similarity on one
\* ATSMatcher, each on its own texts, each call returns what it returns
\* when it runs alone.
ThreadsGetTheirOwnResult ==
  \A t \in Threads :
    pc[t] = "done"
      => /\ ret[t].exc = calculate_text_similarity(args[t].text1,
                                                   args[t].text2).exc
         /\ ret[t].value = calculate_text_similarity(args[t].text1,
                                                     args[t].text2).value

====
